---- MODULE Spec2Model ----
(***************************************************************************)
(* Model of src/main.py (CautionT1): the setup fingerprint, the            *)
(* check-then-insert deduplication against the "setups" table, the three   *)
(* scrape endpoints and the /chat endpoint with its search fallback.       *)
(*                                                                         *)
(* Text is a sequence of one-character strings.  The absent value (None)   *)
(* is the one-element sequence <<"None">>, which is no text.               *)
(***************************************************************************)
EXTENDS Integers, Sequences, FiniteSets, TLC

\* ------------------------------------------------------------------ bounds
\* Total number of characters of one (car, track, notes) fingerprint input.
MaxTotalLen == 2
\* Concurrent request handlers (worker threads / tasks of the server).
NumProcs == 2
\* Requests served in one run.
MaxReq == 2
\* Candidate items of one listing page / posts of one Pushshift answer.
MaxItems == 2

\* ------------------------------------------------------------------ text
Chars == {"a", "A", " ", "|"}

None == <<"None">>

\* str.isspace of one character
IsSpace(ch) == ch = " "

\* str.lower of one character
LowerChar(ch) ==
    CASE ch = "A" -> "a"
      [] ch = "U" -> "u"
      [] OTHER -> ch

\* str.lower
str_lower(s) == [i \in 1..Len(s) |-> LowerChar(s[i])]

RECURSIVE LStrip(_)
LStrip(s) == IF s # <<>> /\ IsSpace(Head(s)) THEN LStrip(Tail(s)) ELSE s

RECURSIVE RStrip(_)
RStrip(s) ==
    IF s # <<>> /\ IsSpace(s[Len(s)]) THEN RStrip(SubSeq(s, 1, Len(s) - 1)) ELSE s

\* str.strip
str_strip(s) == RStrip(LStrip(s))

\* code point of a character, which is its one UTF-8 byte
Ord(ch) ==
    CASE ch = " " -> 32
      [] ch = "A" -> 65
      [] ch = "a" -> 97
      [] ch = "|" -> 124
      [] ch = "U" -> 85
      [] ch = "k" -> 107
      [] ch = "n" -> 110
      [] ch = "o" -> 111
      [] ch = "u" -> 117
      [] ch = "w" -> 119

\* str.encode('utf-8')
encode_utf8(s) == [i \in 1..Len(s) |-> Ord(s[i])]

\* hashlib.sha256(b).hexdigest(): collision-free idealisation, the digest is
\* identified by the byte string it was computed from.
sha256_hexdigest(bytes) == [sha256 |-> bytes]

\* (notes or "")
notes_or_empty(notes) == IF notes = None \/ notes = <<>> THEN <<>> ELSE notes

\* Mutant: the track is not lower-cased.
compute_setup_hash_track_case(car, track, notes) ==
    sha256_hexdigest(encode_utf8(
        str_lower(str_strip(car)) \o <<"|">> \o str_strip(track) \o <<"|">>
        \o str_lower(str_strip(notes_or_empty(notes)))))

\* Mutant: the notes are not stripped.
compute_setup_hash_notes_unstripped(car, track, notes) ==
    sha256_hexdigest(encode_utf8(
        str_lower(str_strip(car)) \o <<"|">> \o str_lower(str_strip(track)) \o <<"|">>
        \o str_lower(notes_or_empty(notes))))

compute_setup_hash(car, track, notes) ==
    LET normalized ==
            encode_utf8(
                str_lower(str_strip(car)) \o <<"|">>
                \o str_lower(str_strip(track)) \o <<"|">>
                \o str_lower(str_strip(notes_or_empty(notes))))
    IN  sha256_hexdigest(normalized)

\* ------------------------------------------------------------------ state
VARIABLES
    setups,         \* the "setups" table: sequence of rows, in insertion order
    clock,          \* datetime.utcnow(), as a logical time
    history,        \* the chat history log
    started,        \* requests started so far
    pc,             \* per handler: where it is in its endpoint
    kind,           \* per handler: the endpoint it serves
    query,          \* per handler: the request's input (car/track or prompt)
    nitems,         \* per handler: len(setup_items) / len(posts)
    idx,            \* per handler: position of the for loop
    setups_saved,   \* per handler: setups_saved
    call,           \* per handler: arguments of the insert_setup_if_new call,
                    \* and the created_at read for its entry (0: not read)
    ret,            \* per handler: outcome of its latest insert_setup_if_new call
    search,         \* per handler: outcomes of the search providers
    search_results, \* per handler: search_results
    real_setups,    \* per handler: real_setups
    completion,     \* per handler: outcome of the completion call
    resp,           \* per handler: the response returned to the client
    tpc, targs, tret, tlen,   \* two successive insert_setup_if_new calls
    hargs, hdigest, hprev     \* a compute_setup_hash call: its input, what it
                              \* returned, what the call before returned

storeVars == <<setups, clock, history>>
reqVars == <<started, pc, kind, query, nitems, idx, setups_saved, call, ret,
             search, search_results, real_setups, completion, resp>>
seqVars == <<tpc, targs, tret, tlen>>
hashVars == <<hargs, hdigest, hprev>>
vars == <<storeVars, reqVars, seqVars, hashVars>>

Procs == 1..NumProcs

\* ------------------------------------------------------------------ inputs
\* Text of the .car-name / .car element, or the 'car' query parameter.
CarTexts == {<<"a">>, <<"A">>}
\* Text of the .car-name / .car element of a listing item: a name, or blank.
ItemCarTexts == {<<"A">>, <<" ">>}
\* Text of the .track-name / .track element.
TrackTexts == {<<"a">>}
\* Text of the .setup-notes / .setup-details element, a post's selftext/title.
NotesTexts == {<<"a">>}
\* href of the details link.
Hrefs == {"/setup/1"}
\* url of a Reddit post.
PostUrls == {<<"https://redd.it/1">>}
Prompts == {"q1"}

Sites == {"simracingsetup", "racingsetups"}

base_url(site) ==
    IF site = "simracingsetup" THEN "https://www.simracingsetup.com"
    ELSE "https://racingsetups.shop"

source_tag(site) ==
    IF site = "simracingsetup" THEN "SimRacingSetup.com" ELSE "RacingSetups.shop"

\* base_url + link["href"]
detail_url(site, href) == <<base_url(site), href>>

\* "Unknown"
Unknown == <<"U", "n", "k", "n", "o", "w", "n">>

NoCall ==
    [car |-> None, track |-> None, url |-> None, source |-> "", notes |-> None,
     created_at |-> 0]
NoQuery == [car |-> <<>>, track |-> <<>>, prompt |-> ""]
NoSearch == [brave |-> "none", serp |-> "none"]
NoText == <<>>

\* ------------------------------------------------------------------ responses
Resp(k, n, cause) == [kind |-> k, saved |-> n, cause |-> cause]
NoResp == Resp("none", 0, "")
\* {"message": f"Saved {setups_saved} new setups from ..."}
SavedMessage(n) == Resp("message", n, "")
\* {"message": "No setups found or site structure changed."}
NoSetupsMessage == Resp("message_none_found", 0, "")
\* {"error": str(e)}
ErrorResp(cause) == Resp("error", 0, cause)
\* {"response": ...}
ChatResp == Resp("response", 0, "")

\* ------------------------------------------------------------------ store
\* supabase.table("setups").select("id").eq("setup_hash", h).limit(1).execute().data
existing(h) == {i \in 1..Len(setups) : setups[i].setup_hash = h}

\* Mutant: the row stores the hash of car and track alone.
entry_hash_without_notes(c, now) ==
    [car |-> c.car, track |-> c.track, url |-> c.url, source |-> c.source,
     notes |-> c.notes,
     setup_hash |-> compute_setup_hash(c.car, c.track, None),
     created_at |-> now]

\* Mutant: the stored hash is taken of the text as given, case and all.
entry_hash_of_raw_text(c, now) ==
    [car |-> c.car, track |-> c.track, url |-> c.url, source |-> c.source,
     notes |-> c.notes,
     setup_hash |-> sha256_hexdigest(encode_utf8(
                        c.car \o <<"|">> \o c.track \o <<"|">> \o notes_or_empty(c.notes))),
     created_at |-> now]

entry(c, now) ==
    [car |-> c.car, track |-> c.track, url |-> c.url, source |-> c.source,
     notes |-> c.notes,
     setup_hash |-> compute_setup_hash(c.car, c.track, c.notes),
     created_at |-> now]

RecentLimit == 3

\* the rows with the `limit` greatest created_at, newest first
RECURSIVE recent_rows(_, _)
recent_rows(rows, limit) ==
    IF limit = 0 \/ rows = {} THEN <<>>
    ELSE LET newest == CHOOSE r \in rows : \A o \in rows : o.created_at <= r.created_at
         IN  <<newest>> \o recent_rows(rows \ {newest}, limit - 1)

\* fetch_recent_setups, store answering
fetch_recent_setups(limit) ==
    LET data == recent_rows({setups[i] : i \in 1..Len(setups)}, limit)
    IN  IF data = <<>> THEN [text |-> "No real setups found.", lines |-> <<>>]
        ELSE [text |-> "lines",
              lines |-> [i \in 1..Len(data) |->
                            <<data[i].car, data[i].track, data[i].url>>]]

\* fetch_recent_setups, store raising: f"Could not load setups: {str(e)}"
CouldNotLoad == [text |-> "Could not load setups", lines |-> <<>>]
NoSetupsText == [text |-> "", lines |-> <<>>]

\* ------------------------------------------------------------------ search
\* Text of a search answer, as its words.
\* The text the fallback chain is to yield when every provider failed.
Sentinel == <<"no", "information", "available">>
\* Titles of the results of a provider: any text, also one that says "Failed".
ResultTexts == {<<"setup", "guide">>, <<"why", "my", "setup", "Failed">>}
\* The text by which a provider reports that it has no results: its wording is
\* the provider's, with or without the word the caller looks for.
NoResultsTexts == {<<"no", "results", "found">>, <<"search", "failed">>}
\* What a call of a provider comes to: it raises (error, timeout), it reports no
\* results, or it returns results.
SearchOutcomes ==
    {[kind |-> "error", text |-> NoText]}
    \cup {[kind |-> "empty", text |-> t] : t \in NoResultsTexts}
    \cup {[kind |-> "results", text |-> t] : t \in ResultTexts}

LowerWord(w) == IF w = "Failed" THEN "failed" ELSE w

\* "failed" in search_results.lower()
mentions_failed(text) == \E i \in 1..Len(text) : LowerWord(text[i]) = "failed"

\* brave_search, when it does not raise: the text the provider's answer gives
brave_search(outcome) == outcome.text

\* serpapi_search, when it does not raise: the text the provider's answer gives
serpapi_search(outcome) == outcome.text

\* ------------------------------------------------------------------ endpoints
IdleServer ==
    /\ setups = <<>>
    /\ clock = 1
    /\ history = <<>>
    /\ started = 0
    /\ pc = [p \in Procs |-> "idle"]
    /\ kind = [p \in Procs |-> "none"]
    /\ query = [p \in Procs |-> NoQuery]
    /\ nitems = [p \in Procs |-> 0]
    /\ idx = [p \in Procs |-> 0]
    /\ setups_saved = [p \in Procs |-> 0]
    /\ call = [p \in Procs |-> NoCall]
    /\ ret = [p \in Procs |-> "none"]
    /\ search = [p \in Procs |-> NoSearch]
    /\ search_results = [p \in Procs |-> NoText]
    /\ real_setups = [p \in Procs |-> NoSetupsText]
    /\ completion = [p \in Procs |-> "none"]
    /\ resp = [p \in Procs |-> NoResp]

NoSeq ==
    /\ tpc = [step |-> "off", k |-> 0, now |-> 0]
    /\ targs = <<>>
    /\ tret = <<>>
    /\ tlen = <<>>

NoHash ==
    /\ hargs = <<>>
    /\ hdigest = <<>>
    /\ hprev = <<>>

Init == IdleServer /\ NoSeq /\ NoHash

\* The handler returns `r` to the client.
Return(p, r) ==
    /\ resp' = [resp EXCEPT ![p] = r]
    /\ pc' = [pc EXCEPT ![p] = "done"]

\* A request arrives at an idle handler.
Accept(p, k, q) ==
    /\ pc[p] = "idle"
    /\ started < MaxReq
    /\ started' = started + 1
    /\ kind' = [kind EXCEPT ![p] = k]
    /\ query' = [query EXCEPT ![p] = q]

\* GET /scrape/simracingsetup, GET /scrape/racingsetups: up to the listing request
StartScrape(p, site) ==
    /\ Accept(p, site, NoQuery)
    /\ pc' = [pc EXCEPT ![p] = "listing"]
    /\ setups_saved' = [setups_saved EXCEPT ![p] = 0]
    /\ UNCHANGED <<storeVars, nitems, idx, call, ret, search, search_results,
                   real_setups, completion, resp, seqVars, hashVars>>

\* GET /scrape/reddit?car=&track=: up to the Pushshift request
StartReddit(p, car, track) ==
    /\ Accept(p, "reddit", [car |-> car, track |-> track, prompt |-> ""])
    /\ IF car = <<>>
       THEN /\ Return(p, ErrorResp("Please provide a 'car' query parameter"))
            /\ UNCHANGED setups_saved
       ELSE /\ pc' = [pc EXCEPT ![p] = "listing"]
            /\ setups_saved' = [setups_saved EXCEPT ![p] = 0]
            /\ UNCHANGED resp
    /\ UNCHANGED <<storeVars, nitems, idx, call, ret, search, search_results,
                   real_setups, completion, seqVars, hashVars>>

\* Mutant: a failed listing request ends every request in flight with the error.
ListingFails_aborts_all(p) ==
    /\ pc[p] = "listing"
    /\ resp' = [q \in Procs |-> IF pc[q] \in {"idle", "done"} THEN resp[q]
                                 ELSE ErrorResp("fetch")]
    /\ pc' = [q \in Procs |-> IF pc[q] = "idle" THEN "idle" ELSE "done"]
    /\ UNCHANGED <<storeVars, started, kind, query, nitems, idx, setups_saved, call,
                   ret, search, search_results, real_setups, completion,
                   seqVars, hashVars>>

\* The listing request raised (connection, timeout, raise_for_status, json).
ListingFails(p) ==
    /\ pc[p] = "listing"
    /\ Return(p, ErrorResp("fetch"))
    /\ UNCHANGED <<storeVars, started, kind, query, nitems, idx, setups_saved, call,
                   ret, search, search_results, real_setups, completion,
                   seqVars, hashVars>>

\* Mutant: a listing without candidate items is answered as an error.
ListingAnswers_zero_is_error(p, n) ==
    /\ pc[p] = "listing"
    /\ nitems' = [nitems EXCEPT ![p] = n]
    /\ IF n = 0
       THEN /\ Return(p, IF kind[p] \in Sites THEN ErrorResp("no setups")
                                              ELSE SavedMessage(setups_saved[p]))
            /\ UNCHANGED idx
       ELSE /\ idx' = [idx EXCEPT ![p] = 1]
            /\ pc' = [pc EXCEPT ![p] = "item"]
            /\ UNCHANGED resp
    /\ UNCHANGED <<storeVars, started, kind, query, setups_saved, call, ret, search,
                   search_results, real_setups, completion, seqVars, hashVars>>

\* The listing request answered with n candidate items / posts.
ListingAnswers(p, n) ==
    /\ pc[p] = "listing"
    /\ nitems' = [nitems EXCEPT ![p] = n]
    /\ IF n = 0
       THEN /\ Return(p, IF kind[p] \in Sites THEN NoSetupsMessage
                                              ELSE SavedMessage(setups_saved[p]))
            /\ UNCHANGED idx
       ELSE /\ idx' = [idx EXCEPT ![p] = 1]
            /\ pc' = [pc EXCEPT ![p] = "item"]
            /\ UNCHANGED resp
    /\ UNCHANGED <<storeVars, started, kind, query, setups_saved, call, ret, search,
                   search_results, real_setups, completion, seqVars, hashVars>>

\* The for loop goes to its next item, or the endpoint returns its count.
Continue(p, saved) ==
    /\ setups_saved' = [setups_saved EXCEPT ![p] = saved]
    /\ IF idx[p] < nitems[p]
       THEN /\ idx' = [idx EXCEPT ![p] = idx[p] + 1]
            /\ pc' = [pc EXCEPT ![p] = "item"]
            /\ UNCHANGED resp
       ELSE /\ Return(p, SavedMessage(saved))
            /\ UNCHANGED idx

\* One item of a site's listing: car, track, link are Tags or None, the link
\* has an href or not.
ScrapeItem(p, car, track, link) ==
    /\ pc[p] = "item"
    /\ kind[p] \in Sites
    /\ IF car = None \/ track = None \/ link = "no link"
       THEN /\ Continue(p, setups_saved[p])
            /\ UNCHANGED call
       ELSE IF link = "no href"
       THEN /\ Return(p, ErrorResp("'href'"))
            /\ UNCHANGED <<idx, setups_saved, call>>
       ELSE /\ call' = [call EXCEPT ![p] =
                           [car |-> car, track |-> track,
                            url |-> detail_url(kind[p], link),
                            source |-> source_tag(kind[p]), notes |-> None,
                            created_at |-> 0]]
            /\ pc' = [pc EXCEPT ![p] = "detail"]
            /\ UNCHANGED <<idx, setups_saved, resp>>
    /\ UNCHANGED <<storeVars, started, kind, query, nitems, ret, search,
                   search_results, real_setups, completion, seqVars, hashVars>>

\* The detail page request raised.
DetailFails(p) ==
    /\ pc[p] = "detail"
    /\ Return(p, ErrorResp("fetch"))
    /\ UNCHANGED <<storeVars, started, kind, query, nitems, idx, setups_saved, call,
                   ret, search, search_results, real_setups, completion,
                   seqVars, hashVars>>

\* The detail page answered; notes_tag.text or None.  insert_setup_if_new is
\* called with car.text.strip(), track.text.strip(), notes.strip().
DetailAnswers(p, notes_text) ==
    /\ pc[p] = "detail"
    /\ call' = [call EXCEPT ![p] =
                   [@ EXCEPT !.car = str_strip(@), !.track = str_strip(@),
                             !.notes = IF notes_text = None THEN None
                                       ELSE str_strip(notes_text)]]
    /\ ret' = [ret EXCEPT ![p] = "pending"]
    /\ pc' = [pc EXCEPT ![p] = "select"]
    /\ UNCHANGED <<storeVars, started, kind, query, nitems, idx, setups_saved,
                   search, search_results, real_setups, completion, resp,
                   seqVars, hashVars>>

\* One post of the Pushshift answer.
RedditPost(p, title, url, selftext) ==
    /\ pc[p] = "item"
    /\ kind[p] = "reddit"
    /\ call' = [call EXCEPT ![p] =
                   [car |-> query[p].car,
                    track |-> IF query[p].track # <<>> THEN query[p].track
                              ELSE Unknown,
                    url |-> url,
                    source |-> "Reddit",
                    notes |-> IF selftext # <<>> THEN selftext ELSE title,
                    created_at |-> 0]]
    /\ ret' = [ret EXCEPT ![p] = "pending"]
    /\ pc' = [pc EXCEPT ![p] = "select"]
    /\ UNCHANGED <<storeVars, started, kind, query, nitems, idx, setups_saved,
                   search, search_results, real_setups, completion, resp,
                   seqVars, hashVars>>

\* insert_setup_if_new, the select: the store raises, or answers; a row with the
\* hash makes the call return False.  Without such a row the entry is built,
\* created_at read from the clock then, and the insert request is sent.
InsertSelect(p, store_ok) ==
    /\ pc[p] = "select"
    /\ IF ~store_ok
       THEN /\ ret' = [ret EXCEPT ![p] = "raised"]
            /\ Return(p, ErrorResp("store"))
            /\ UNCHANGED <<idx, setups_saved, call, clock>>
       ELSE IF existing(compute_setup_hash(call[p].car, call[p].track,
                                           call[p].notes)) # {}
       THEN /\ ret' = [ret EXCEPT ![p] = "False"]
            /\ Continue(p, setups_saved[p])
            /\ UNCHANGED <<call, clock>>
       ELSE /\ call' = [call EXCEPT ![p].created_at = clock]
            /\ clock' = clock + 1
            /\ pc' = [pc EXCEPT ![p] = "insert"]
            /\ UNCHANGED <<ret, idx, setups_saved, resp>>
    /\ UNCHANGED <<setups, history, started, kind, query, nitems, search,
                   search_results, real_setups, completion, seqVars, hashVars>>

\* Mutant: the insert is an upsert that replaces the newest row.
InsertWrite_replaces(p, store_ok) ==
    /\ pc[p] = "insert"
    /\ IF ~store_ok
       THEN /\ ret' = [ret EXCEPT ![p] = "raised"]
            /\ Return(p, ErrorResp("store"))
            /\ UNCHANGED <<setups, idx, setups_saved>>
       ELSE /\ setups' = IF setups = <<>>
                         THEN <<entry(call[p], call[p].created_at)>>
                         ELSE [setups EXCEPT ![Len(setups)] =
                                   entry(call[p], call[p].created_at)]
            /\ ret' = [ret EXCEPT ![p] = "True"]
            /\ Continue(p, setups_saved[p] + 1)
    /\ UNCHANGED <<clock, history, started, kind, query, nitems, call, search,
                   search_results, real_setups, completion, seqVars, hashVars>>

\* insert_setup_if_new, the insert: the store raises, or appends the entry
\* built after the select and the call returns True.
InsertWrite(p, store_ok) ==
    /\ pc[p] = "insert"
    /\ IF ~store_ok
       THEN /\ ret' = [ret EXCEPT ![p] = "raised"]
            /\ Return(p, ErrorResp("store"))
            /\ UNCHANGED <<setups, idx, setups_saved>>
       ELSE /\ setups' = Append(setups, entry(call[p], call[p].created_at))
            /\ ret' = [ret EXCEPT ![p] = "True"]
            /\ Continue(p, setups_saved[p] + 1)
    /\ UNCHANGED <<clock, history, started, kind, query, nitems, call, search,
                   search_results, real_setups, completion, seqVars, hashVars>>

\* chat_with_ai is a coroutine of the one event loop, and calls
\* fetch_recent_setups and requests.post without await: from there to its
\* return it keeps the loop, and no other chat_with_ai starts or resumes from
\* an await.  The scrape endpoints are plain functions and run in threads.
event_loop_free(p) ==
    \A q \in Procs \ {p} : ~(kind[q] = "chat" /\ pc[q] \in {"recent", "complete"})

\* POST /chat: up to the call of brave_search
StartChat(p, prompt) ==
    /\ event_loop_free(p)
    /\ Accept(p, "chat", [car |-> <<>>, track |-> <<>>, prompt |-> prompt])
    /\ pc' = [pc EXCEPT ![p] = "brave"]
    /\ UNCHANGED <<storeVars, nitems, idx, setups_saved, call, ret, search,
                   search_results, real_setups, completion, resp, seqVars, hashVars>>

\* search_results = await brave_search(prompt); the test for "failed".  The
\* await is in no try: when brave_search raises, the request ends unhandled.
ChatBrave(p, outcome) ==
    /\ pc[p] = "brave"
    /\ event_loop_free(p)
    /\ search' = [search EXCEPT ![p].brave = outcome.kind]
    /\ IF outcome.kind = "error"
       THEN /\ Return(p, Resp("raised", 0, "search"))
            /\ UNCHANGED search_results
       ELSE /\ search_results' = [search_results EXCEPT ![p] = brave_search(outcome)]
            /\ pc' = [pc EXCEPT ![p] =
                         IF mentions_failed(brave_search(outcome)) THEN "serp"
                         ELSE "recent"]
            /\ UNCHANGED resp
    /\ UNCHANGED <<storeVars, started, kind, query, nitems, idx, setups_saved, call,
                   ret, real_setups, completion, seqVars, hashVars>>

\* search_results = await serpapi_search(prompt), in no try either
ChatSerp(p, outcome) ==
    /\ pc[p] = "serp"
    /\ event_loop_free(p)
    /\ search' = [search EXCEPT ![p].serp = outcome.kind]
    /\ IF outcome.kind = "error"
       THEN /\ Return(p, Resp("raised", 0, "search"))
            /\ UNCHANGED search_results
       ELSE /\ search_results' = [search_results EXCEPT ![p] = serpapi_search(outcome)]
            /\ pc' = [pc EXCEPT ![p] = "recent"]
            /\ UNCHANGED resp
    /\ UNCHANGED <<storeVars, started, kind, query, nitems, idx, setups_saved, call,
                   ret, real_setups, completion, seqVars, hashVars>>

\* real_setups = fetch_recent_setups(); the completion request is sent
ChatRecent(p, store_ok) ==
    /\ pc[p] = "recent"
    /\ real_setups' = [real_setups EXCEPT ![p] =
                          IF store_ok THEN fetch_recent_setups(RecentLimit)
                          ELSE CouldNotLoad]
    /\ pc' = [pc EXCEPT ![p] = "complete"]
    /\ UNCHANGED <<storeVars, started, kind, query, nitems, idx, setups_saved, call,
                   ret, search, search_results, completion, resp, seqVars, hashVars>>

\* Mutant: the exchange is logged before the outcome of the completion is known.
ChatComplete_logs_first(p, outcome) ==
    /\ pc[p] = "complete"
    /\ completion' = [completion EXCEPT ![p] = outcome]
    /\ history' = Append(history, [prompt |-> query[p].prompt, response |-> outcome])
    /\ Return(p, IF outcome = "ok" THEN ChatResp ELSE ErrorResp("completion"))
    /\ UNCHANGED <<setups, clock, started, kind, query, nitems, idx, setups_saved,
                   call, ret, search, search_results, real_setups, seqVars, hashVars>>

\* The completion request answered, or raised (network, raise_for_status, json).
ChatComplete(p, outcome) ==
    /\ pc[p] = "complete"
    /\ completion' = [completion EXCEPT ![p] = outcome]
    /\ Return(p, IF outcome = "ok" THEN ChatResp ELSE ErrorResp("completion"))
    /\ UNCHANGED <<storeVars, started, kind, query, nitems, idx, setups_saved, call,
                   ret, search, search_results, real_setups, seqVars, hashVars>>

\* The response is delivered; the handler is free for the next request.
Finish(p) ==
    /\ pc[p] = "done"
    /\ pc' = [pc EXCEPT ![p] = "idle"]
    /\ kind' = [kind EXCEPT ![p] = "none"]
    /\ query' = [query EXCEPT ![p] = NoQuery]
    /\ nitems' = [nitems EXCEPT ![p] = 0]
    /\ idx' = [idx EXCEPT ![p] = 0]
    /\ setups_saved' = [setups_saved EXCEPT ![p] = 0]
    /\ call' = [call EXCEPT ![p] = NoCall]
    /\ ret' = [ret EXCEPT ![p] = "none"]
    /\ search' = [search EXCEPT ![p] = NoSearch]
    /\ search_results' = [search_results EXCEPT ![p] = NoText]
    /\ real_setups' = [real_setups EXCEPT ![p] = NoSetupsText]
    /\ completion' = [completion EXCEPT ![p] = "none"]
    /\ resp' = [resp EXCEPT ![p] = NoResp]
    /\ UNCHANGED <<storeVars, started, seqVars, hashVars>>

Next ==
    \E p \in Procs :
        \/ \E site \in Sites : StartScrape(p, site)
        \/ \E car \in CarTexts \cup {<<>>}, track \in TrackTexts \cup {<<>>} :
               StartReddit(p, car, track)
        \/ ListingFails(p)
        \/ \E n \in 0..MaxItems : ListingAnswers(p, n)
        \/ \E car \in ItemCarTexts \cup {None}, track \in TrackTexts \cup {None},
              link \in Hrefs \cup {"no link", "no href"} :
               ScrapeItem(p, car, track, link)
        \/ DetailFails(p)
        \/ \E notes_text \in NotesTexts \cup {None} : DetailAnswers(p, notes_text)
        \/ \E title \in {<<>>, <<"a">>}, url \in PostUrls,
              selftext \in NotesTexts \cup {<<>>} :
               RedditPost(p, title, url, selftext)
        \/ \E store_ok \in BOOLEAN : InsertSelect(p, store_ok)
        \/ \E store_ok \in BOOLEAN : InsertWrite(p, store_ok)
        \/ \E prompt \in Prompts : StartChat(p, prompt)
        \/ \E outcome \in SearchOutcomes : ChatBrave(p, outcome)
        \/ \E outcome \in SearchOutcomes : ChatSerp(p, outcome)
        \/ \E store_ok \in BOOLEAN : ChatRecent(p, store_ok)
        \/ \E outcome \in {"ok", "fail"} : ChatComplete(p, outcome)
        \/ Finish(p)

Spec == Init /\ [][Next]_vars

\* The steps of handler p that the code bounds in time: a requests.get with
\* timeout=10 answers or raises, the search clients and the store client carry
\* their library's default timeout, the rest is local computation.  The
\* requests.post of the completion has no timeout: its step is not among them.
\* A chat coroutine resumes from its search only while the event loop is free,
\* so behind a completion call that never answers it waits without bound too.
TimedStep(p) ==
    \/ ListingFails(p)
    \/ \E n \in 0..MaxItems : ListingAnswers(p, n)
    \/ \E car \in ItemCarTexts \cup {None}, track \in TrackTexts \cup {None},
          link \in Hrefs \cup {"no link", "no href"} :
           ScrapeItem(p, car, track, link)
    \/ DetailFails(p)
    \/ \E notes_text \in NotesTexts \cup {None} : DetailAnswers(p, notes_text)
    \/ \E title \in {<<>>, <<"a">>}, url \in PostUrls,
          selftext \in NotesTexts \cup {<<>>} :
           RedditPost(p, title, url, selftext)
    \/ \E store_ok \in BOOLEAN : InsertSelect(p, store_ok)
    \/ \E store_ok \in BOOLEAN : InsertWrite(p, store_ok)
    \/ \E outcome \in SearchOutcomes : ChatBrave(p, outcome)
    \/ \E outcome \in SearchOutcomes : ChatSerp(p, outcome)
    \/ \E store_ok \in BOOLEAN : ChatRecent(p, store_ok)

\* The server with its scheduling: a handler whose next step is bounded in time
\* and not held up by a blocked event loop takes it; requests arrive, and the
\* completion provider answers, or not.
SpecLive == Init /\ [][Next]_vars /\ \A p \in Procs : WF_vars(TimedStep(p))

\* ------------------------------------------------------------------ SpecSeq
\* insert_setup_if_new called twice, one call after the other, with the same
\* (car, track, notes) and any two sources and urls.
SourceTags == {"SimRacingSetup.com", "RacingSetups.shop", "Reddit"}
SeqUrls == {detail_url("simracingsetup", href) : href \in Hrefs} \cup PostUrls

SeqInputs ==
    [car : CarTexts, track : TrackTexts, notes : NotesTexts \cup {None, <<>>},
     source1 : SourceTags, url1 : SeqUrls, source2 : SourceTags, url2 : SeqUrls]

seq_call(k) ==
    [car |-> targs.car, track |-> targs.track, notes |-> targs.notes,
     url |-> IF k = 1 THEN targs.url1 ELSE targs.url2,
     source |-> IF k = 1 THEN targs.source1 ELSE targs.source2]

seq_hash == compute_setup_hash(targs.car, targs.track, targs.notes)

\* Call k has returned r: the second call starts, or both are over.
SeqReturned(k, r, len) ==
    /\ tret' = [tret EXCEPT ![k] = r]
    /\ IF k = 1
       THEN /\ tlen' = [tlen EXCEPT !.between = len, !.after = len]
            /\ tpc' = [step |-> "select", k |-> 2, now |-> 0]
       ELSE /\ tlen' = [tlen EXCEPT !.after = len]
            /\ tpc' = [step |-> "finished", k |-> 2, now |-> 0]

\* Call k raised: the caller does not go on.
SeqRaised(k) ==
    /\ tret' = [tret EXCEPT ![k] = "raised"]
    /\ tpc' = [step |-> "finished", k |-> k, now |-> 0]
    /\ UNCHANGED tlen

\* The store before the two calls: empty, or one row an earlier call inserted.
SeqStores ==
    {<<>>} \cup
    {<<entry([car |-> c, track |-> t, notes |-> n, url |-> u, source |-> s], 1)>> :
        c \in CarTexts, t \in TrackTexts, n \in NotesTexts \cup {None, <<>>},
        u \in SeqUrls, s \in SourceTags}

InitSeq ==
    /\ setups \in SeqStores
    /\ clock = Len(setups) + 1
    /\ history = <<>>
    /\ started = 0
    /\ pc = [p \in Procs |-> "idle"]
    /\ kind = [p \in Procs |-> "none"]
    /\ query = [p \in Procs |-> NoQuery]
    /\ nitems = [p \in Procs |-> 0]
    /\ idx = [p \in Procs |-> 0]
    /\ setups_saved = [p \in Procs |-> 0]
    /\ call = [p \in Procs |-> NoCall]
    /\ ret = [p \in Procs |-> "none"]
    /\ search = [p \in Procs |-> NoSearch]
    /\ search_results = [p \in Procs |-> NoText]
    /\ real_setups = [p \in Procs |-> NoSetupsText]
    /\ completion = [p \in Procs |-> "none"]
    /\ resp = [p \in Procs |-> NoResp]
    /\ NoHash
    /\ targs \in SeqInputs
    /\ tpc = [step |-> "select", k |-> 1, now |-> 0]
    /\ tret = <<"pending", "pending">>
    /\ tlen = [stored_before |->
                   existing(compute_setup_hash(targs.car, targs.track, targs.notes)) # {},
               before |-> Len(setups), between |-> Len(setups), after |-> Len(setups)]

\* insert_setup_if_new, the select; created_at is read when the entry is built
SeqSelect(store_ok) ==
    /\ tpc.step = "select"
    /\ IF ~store_ok
       THEN /\ SeqRaised(tpc.k)
            /\ UNCHANGED clock
       ELSE IF existing(seq_hash) # {}
       THEN /\ SeqReturned(tpc.k, "False", Len(setups))
            /\ UNCHANGED clock
       ELSE /\ tpc' = [tpc EXCEPT !.step = "insert", !.now = clock]
            /\ clock' = clock + 1
            /\ UNCHANGED <<tret, tlen>>
    /\ UNCHANGED <<setups, history, reqVars, targs, hashVars>>

\* insert_setup_if_new, the insert
SeqWrite(store_ok) ==
    /\ tpc.step = "insert"
    /\ IF ~store_ok
       THEN /\ SeqRaised(tpc.k)
            /\ UNCHANGED setups
       ELSE /\ setups' = Append(setups, entry(seq_call(tpc.k), tpc.now))
            /\ SeqReturned(tpc.k, "True", Len(setups) + 1)
    /\ UNCHANGED <<clock, history, reqVars, targs, hashVars>>

NextSeq ==
    \/ \E store_ok \in BOOLEAN : SeqSelect(store_ok)
    \/ \E store_ok \in BOOLEAN : SeqWrite(store_ok)

SpecSeq == InitSeq /\ [][NextSeq]_vars

\* ------------------------------------------------------------------ SpecHash
\* compute_setup_hash called, again and again, on one (car, track, notes).
StrsOfLen(k) == [1..k -> Chars]

HashInputs ==
    UNION {StrsOfLen(l[1]) \X StrsOfLen(l[2])
               \X (StrsOfLen(l[3]) \cup (IF l[3] = 0 THEN {None} ELSE {})) :
           l \in {m \in (0..MaxTotalLen) \X (0..MaxTotalLen) \X (0..MaxTotalLen) :
                      m[1] + m[2] + m[3] <= MaxTotalLen}}

InitHash ==
    /\ IdleServer
    /\ NoSeq
    /\ hargs \in HashInputs
    /\ hdigest = <<>>
    /\ hprev = <<>>

Fingerprint ==
    /\ hprev' = hdigest
    /\ hdigest' = <<compute_setup_hash(hargs[1], hargs[2], hargs[3])>>
    /\ UNCHANGED <<hargs, storeVars, reqVars, seqVars>>

NextHash == Fingerprint

SpecHash == InitHash /\ [][NextHash]_vars

\* ------------------------------------------------------------------ claims
call_hash(p) == compute_setup_hash(call[p].car, call[p].track, call[p].notes)

\* C1: two concurrent insert_setup_if_new calls with the same fingerprint never
\* both return True.
C1_NeverBothTrue ==
    \A p \in Procs, q \in Procs :
        (p # q /\ ret[p] = "True" /\ ret[q] = "True") => call_hash(p) # call_hash(q)

\* C2: no two rows of the setups table have the same setup_hash.
C2_UniqueHashes ==
    \A i \in 1..Len(setups), j \in 1..Len(setups) :
        i # j => setups[i].setup_hash # setups[j].setup_hash

\* C3: two successive insert_setup_if_new calls with the same (car, track, notes),
\* whatever the two sources and urls, neither raising: the second returns False
\* and leaves the table as it was, the table holds one row with that fingerprint,
\* and when the fingerprint was not stored before, the first returns True and adds
\* exactly one row.
C3_SequentialIdempotence ==
    /\ (tpc.k = 2 /\ tret[1] = "True") =>
            /\ ~tlen.stored_before
            /\ tlen.between = tlen.before + 1
    /\ (tpc.k = 2 /\ tret[1] = "False") =>
            /\ tlen.stored_before
            /\ tlen.between = tlen.before
    /\ (tpc.step = "finished" /\ tpc.k = 2 /\ tret[2] # "raised") =>
            /\ tret[2] = "False"
            /\ tlen.after = tlen.between
            /\ Len(setups) = tlen.after
            /\ Cardinality(existing(seq_hash)) = 1

C3_Witness ==
    /\ tpc.step = "finished"
    /\ tret = <<"True", "False">>
    /\ targs.source1 # targs.source2
    /\ targs.url1 # targs.url2
    /\ targs.notes = <<"a">>
    /\ Len(setups) = 2

\* Letters that differ in case only.
SameLetter(c, d) == c = d \/ {c, d} = {"a", "A"}
SameTextUpToCase(s, t) ==
    /\ Len(s) = Len(t)
    /\ \A i \in 1..Len(s) : SameLetter(s[i], t[i])
CaseVariant(x, y) ==
    /\ SameTextUpToCase(x[1], y[1])
    /\ SameTextUpToCase(x[2], y[2])
    /\ (x[3] = None) = (y[3] = None)
    /\ x[3] # None => SameTextUpToCase(x[3], y[3])

\* C4: compute_setup_hash gives the same digest on every call with the same
\* input, and the same digest for every input that differs from it in letter
\* case only.
C4_CaseInvariant ==
    hdigest # <<>> =>
        /\ hprev # <<>> => hprev = hdigest
        /\ \A other \in HashInputs :
               CaseVariant(other, hargs) =>
                   compute_setup_hash(other[1], other[2], other[3]) = hdigest[1]

C4_Witness ==
    /\ hdigest # <<>>
    /\ hprev # <<>>
    /\ hargs = << <<"A">>, <<"a">>, None >>

\* The reference formulas, written without the operators of the model.
RefLower(s) == [i \in 1..Len(s) |-> IF s[i] = "A" THEN "a" ELSE s[i]]
RefTrim(s) ==
    LET keep == {i \in 1..Len(s) : s[i] # " "}
    IN  IF keep = {} THEN <<>>
        ELSE SubSeq(s, CHOOSE i \in keep : \A j \in keep : i <= j,
                       CHOOSE i \in keep : \A j \in keep : j <= i)
RefText(n) == IF n = None THEN <<>> ELSE n
\* lower(car) + "|" + lower(track) + "|" + lower(notes or "")
LowerJoined(in) ==
    RefLower(in[1]) \o <<"|">> \o RefLower(in[2]) \o <<"|">> \o RefLower(RefText(in[3]))
\* the same of the stripped fields
StrippedLowerJoined(in) ==
    RefLower(RefTrim(in[1])) \o <<"|">> \o RefLower(RefTrim(in[2])) \o <<"|">>
    \o RefLower(RefTrim(RefText(in[3])))

\* C5, as claimed: the fingerprint is the SHA-256 digest of exactly
\* lower(car) + "|" + lower(track) + "|" + lower(notes or ""), so that inputs that
\* differ in surrounding whitespace get different fingerprints.
C5_DigestOfLowerJoined ==
    hdigest # <<>> =>
        /\ hdigest[1] = sha256_hexdigest(encode_utf8(LowerJoined(hargs)))
        /\ \A other \in HashInputs :
               (compute_setup_hash(other[1], other[2], other[3]) = hdigest[1])
                   <=> (LowerJoined(other) = LowerJoined(hargs))

\* C5, amended: the fingerprint is the SHA-256 digest of the stripped and
\* lower-cased car, track and (notes or "") joined by "|"; two inputs get the same
\* fingerprint exactly when those strings are equal.
C5_DigestOfStrippedLowerJoined ==
    hdigest # <<>> =>
        /\ hdigest[1] = sha256_hexdigest(encode_utf8(StrippedLowerJoined(hargs)))
        /\ \A other \in HashInputs :
               (compute_setup_hash(other[1], other[2], other[3]) = hdigest[1])
                   <=> (StrippedLowerJoined(other) = StrippedLowerJoined(hargs))

C5_Witness ==
    /\ hdigest # <<>>
    /\ hargs = << <<"A">>, <<>>, <<" ">> >>

\* C6: the secondary search provider is called exactly when the primary one
\* raised or reported no results, and only after it; never when the primary
\* returned results.
C6_FallbackOrdering ==
    \A p \in Procs :
        /\ search[p].serp # "none" => search[p].brave \in {"error", "empty"}
        /\ (search[p].brave \in {"error", "empty"} /\ pc[p] \in {"recent", "complete", "done"})
               => search[p].serp # "none"
        /\ pc[p] = "serp" => search[p].brave # "none"

\* C7: when both search providers fail, search_results is the sentinel, the
\* handler does not raise, and a finished request has called the completion
\* provider.
C7_Exhaustion ==
    \A p \in Procs :
        (search[p].brave \in {"error", "empty"} /\ search[p].serp \in {"error", "empty"})
            => /\ search_results[p] = Sentinel
               /\ pc[p] \in {"recent", "complete", "done"}
               /\ pc[p] = "done" =>
                      /\ completion[p] # "none"
                      /\ resp[p].kind \in {"response", "error"}
                      /\ resp[p].kind = "response" <=> completion[p] = "ok"

\* C8: a chat request whose completion succeeded has added one entry, holding
\* its prompt, to the chat history.
C8_HistoryGrows ==
    \A p \in Procs :
        (pc[p] = "done" /\ kind[p] = "chat" /\ completion[p] = "ok")
            => /\ Len(history) >= 1
               /\ \E i \in 1..Len(history) : history[i].prompt = query[p].prompt

\* A step of handler p in a chat request, up to and with a failed completion.
ChatStepToFailure(p) ==
    \/ pc[p] = "idle" /\ pc'[p] = "brave"
    \/ pc[p] \in {"brave", "serp", "recent"} /\ pc'[p] # pc[p]
    \/ pc[p] = "complete" /\ completion'[p] = "fail"

\* C9: a chat request whose completion call fails returns the error response,
\* does not raise, and no step of it changes the setups table or the history.
C9_CompletionFailure ==
    /\ [](\A p \in Procs :
            completion[p] = "fail" =>
                pc[p] = "done" /\ resp[p] = ErrorResp("completion"))
    /\ [][\A p \in Procs :
            ChatStepToFailure(p) => setups' = setups /\ history' = history]_vars

C9_Witness ==
    \E p \in Procs :
        /\ completion[p] = "fail"
        /\ resp[p].kind = "error"
        /\ Len(setups) >= 1

\* C10: a request during which the store raised ends in an error response.
C10_StoreFailureSurfaced ==
    \A p \in Procs :
        (pc[p] = "done" /\ (real_setups[p] = CouldNotLoad \/ ret[p] = "raised"))
            => resp[p].kind = "error"

\* The three ingestion endpoints.
ScrapeKinds == Sites \cup {"reddit"}

\* A step in which the ingestion run of handler p ends in failure.
RunFails(p) ==
    /\ pc[p] # "done"
    /\ pc'[p] = "done"
    /\ kind'[p] \in ScrapeKinds
    /\ resp'[p].kind = "error"

\* The locals of handler q are the same before and after the step.
RunUntouched(q) ==
    /\ pc'[q] = pc[q]
    /\ kind'[q] = kind[q]
    /\ nitems'[q] = nitems[q]
    /\ idx'[q] = idx[q]
    /\ setups_saved'[q] = setups_saved[q]
    /\ call'[q] = call[q]
    /\ ret'[q] = ret[q]
    /\ resp'[q] = resp[q]

\* C11: the failure of one ingestion run ends in that run's own error response
\* and touches neither the store nor any other run.
C11_SourceIsolation ==
    /\ [][\A p \in Procs :
            RunFails(p) =>
                /\ setups' = setups
                /\ \A q \in Procs \ {p} : RunUntouched(q)]_vars

C11_Witness ==
    \E p \in Procs, q \in Procs :
        /\ kind[p] \in Sites
        /\ resp[p] = ErrorResp("fetch")
        /\ kind[q] = "reddit"
        /\ resp[q] = SavedMessage(1)
        /\ \E i \in 1..Len(setups) : setups[i].source = "Reddit"

\* C14: every request that was accepted eventually has its response, also when
\* an external service never answers.
C14_EveryRequestReturns ==
    \A p \in Procs : (pc[p] # "idle") ~> (pc[p] = "done")

\* C12: a site run that ended without a failure of the store has gone through
\* every item of its listing: an item that fails is dropped alone.
C12_LaterItemsProcessed ==
    \A p \in Procs :
        (pc[p] = "done" /\ kind[p] \in Sites /\ nitems[p] > 0 /\ ret[p] # "raised")
            => idx[p] = nitems[p]

\* C13: the response of a finished ingestion run reports the number of rows the
\* run inserted, also when the run ended with an error.
C13_CountMatchesStore ==
    \A p \in Procs :
        (pc[p] = "done" /\ kind[p] \in ScrapeKinds)
            => resp[p].saved = setups_saved[p]

\* A step in which the listing of a site run answered without candidate items.
ListingYieldsNothing(p) ==
    /\ pc[p] = "listing"
    /\ kind[p] \in Sites
    /\ pc'[p] # "listing"
    /\ nitems'[p] = 0
    /\ resp'[p].cause # "fetch"

\* C15: a listing without candidate items ends the run with the "no setups
\* found" message, which is no error; no detail page is requested and the
\* store is as it was.
C15_ZeroFound ==
    /\ [](\A p \in Procs :
            resp[p] = NoSetupsMessage =>
                call[p] = NoCall /\ ret[p] = "none" /\ setups_saved[p] = 0)
    /\ [][\A p \in Procs :
            ListingYieldsNothing(p) =>
                /\ pc'[p] = "done"
                /\ resp'[p] = NoSetupsMessage
                /\ resp'[p].kind # "error"
                /\ call'[p] = NoCall
                /\ setups' = setups]_vars

C15_Witness ==
    \E p \in Procs :
        /\ kind[p] \in Sites
        /\ pc[p] = "done"
        /\ resp[p] = NoSetupsMessage
        /\ Len(setups) >= 1

\* C16: every stored row has a car and a track that are not empty.
C16_CarAndTrackPresent ==
    \A i \in 1..Len(setups) :
        /\ setups[i].car \notin {<<>>, None}
        /\ setups[i].track \notin {<<>>, None}

\* C17: no step removes a stored row or changes one of its fields; the table
\* only grows.
C17_StoreOnlyGrows ==
    [][/\ Len(setups') >= Len(setups)
       /\ \A i \in 1..Len(setups) : setups'[i] = setups[i]]_vars

C17_Witness ==
    /\ Len(setups) >= 1
    /\ \E p \in Procs : ret[p] = "False"
    /\ \E q \in Procs : pc[q] = "complete" /\ real_setups[q].lines # <<>>

\* C18: the setup_hash of every stored row is compute_setup_hash of the row's
\* own car, track and notes.
C18_StoredHashConsistent ==
    \A i \in 1..Len(setups) :
        setups[i].setup_hash =
            compute_setup_hash(setups[i].car, setups[i].track, setups[i].notes)

C18_Witness ==
    \E i \in 1..Len(setups) :
        /\ setups[i].car = <<"A">>
        /\ setups[i].notes # None

\* car, track and notes or "", each trimmed and lower-cased
NormFields(in) ==
    <<RefLower(RefTrim(in[1])), RefLower(RefTrim(in[2])),
      RefLower(RefTrim(RefText(in[3])))>>

\* C19: two inputs that differ in a field after trimming and lower-casing never
\* get the same fingerprint.
C19_NoFalseDuplicates ==
    hdigest # <<>> =>
        \A other \in HashInputs :
            NormFields(other) # NormFields(hargs)
                => compute_setup_hash(other[1], other[2], other[3]) # hdigest[1]

====
